---- MODULE Spec2Model ----
(***************************************************************************)
(* The per-request HTTP dispatch pipeline of litestar's HTTPRoute          *)
(* (src/litestar/routes/http.py): guard check, response cache lookup,      *)
(* before-request hook, kwargs resolution, handler call, response          *)
(* conversion, sending, after-response hook and temporary-file cleanup.    *)
(* One request is in flight at a time; the response cache store outlives   *)
(* the requests.  Every await of a collaborator is one action whose        *)
(* outcome (return value or raised exception) is chosen with \E.           *)
(*                                                                         *)
(* SpecRoute adds the construction of the route's method table             *)
(* (HTTPRoute.__init__, create_handler_map) in front of the pipeline, and  *)
(* SpecOptions is the handler of OPTIONS requests with its CORS preflight  *)
(* negotiation (src/litestar/handlers/http_handlers/_options.py).          *)
(***************************************************************************)
EXTENDS Integers, Sequences, FiniteSets, TLC

\* ------------------------------------------------------------------ bounds
MaxFields == 1          \* form fields of one request
MaxCleanup == 3         \* cleanup actions (generator dependencies) of one group
MaxMsgs == 2            \* wire messages of one response

\* ------------------------------------------------------------ value domains
None == "None"
Keys == {"k1", "k2"}

\* The wire messages of a response of n messages: the start message (1)
\* followed by the body chunks (2..n), in the order they are to be sent.
MessagesOf(n) == [i \in 1..n |-> i]

LiveResponses == {MessagesOf(n) : n \in 1..MaxMsgs}

\* What a before-request hook can return: None, falsy values other than None
\* (0, the empty string) and a truthy payload.
HookResults == {None, "Zero", "EmptyStr", "Payload"}

\* What the handler function can return.
HandlerResults == {"Result"}

\* Python truthiness of a returned value.
Truthy(v) == v \notin {None, "Zero", "EmptyStr"}

Reverse(s) == [i \in 1..Len(s) |-> s[Len(s) + 1 - i]]

\* ------------------------------------------------------------- msgpack blobs
\* msgspec.msgpack encodes a list as an array header carrying the length,
\* followed by the elements; decoding rejects a blob whose header does not
\* match what follows (truncated input).
encode_msgpack(msgs) == <<Len(msgs)>> \o msgs

DecodeOk(blob) == Len(blob) >= 1 /\ blob[1] = Len(blob) - 1

_decode_msgpack_plain(blob) == SubSeq(blob, 2, Len(blob))

\* Proper prefixes of a blob: what a truncated entry looks like.
Truncations(blob) == {SubSeq(blob, 1, n) : n \in 0..(Len(blob) - 1)}

\* ------------------------------------------------------------ response cache
NoEntry == [present |-> FALSE, data |-> <<>>, expires_in |-> FALSE]

\* What store.get can hand back for an entry: the bytes stored, or, when the
\* entry was damaged in the store, a truncation of them.
StoreGet(entry) ==
    IF entry.present THEN {entry} \cup {[entry EXCEPT !.data = t] : t \in Truncations(entry.data)}
    ELSE {NoEntry}

\* A lookup that never reports a hit.
IsCacheHitNever(entry) == FALSE

\* _get_cached_response, line 203: ``if not (cached_response_data := ...)``;
\* a missing entry and empty bytes are both falsy.
IsCacheHit(entry) == entry.present /\ Len(entry.data) > 0

\* Write-through of a live response: the messages, encoded, under the request's
\* key with the handler's time-to-live.
WriteCached(st, key, expires_in, msgs) ==
    [st EXCEPT ![key] = [present |-> TRUE, data |-> encode_msgpack(msgs),
                         expires_in |-> expires_in]]

\* --------------------------------------------------------------- form data
\* A form field holds a plain value, one UploadFile, or a list of UploadFiles
\* (several files sent under the same field name).
FieldShapes ==
    [kind : {"text"}, n : {0}] \cup [kind : {"file"}, n : {1}]
    \cup [kind : {"files"}, n : {2}]

Forms == UNION {[1..n -> FieldShapes] : n \in 0..MaxFields}

\* The upload files of a form: <<field, position in the field>>.
FilesOf(f) == {p \in (1..Len(f)) \X (1..2) : p[2] <= f[p[1]].n}

\* _cleanup_temporary_files, line 220: the value is closed when it is an
\* UploadFile (not a list of them) whose file is not closed yet.
NeedsClose(field, count) == field.kind = "file" /\ count = 0

\* ------------------------------------------------------------ cleanup group
NoGroup == [exists |-> FALSE, actions |-> <<>>, closed |-> FALSE]

\* A release step that forgets that the group was released already.
ReleaseEveryTime(group) == IF group.exists THEN Reverse(group.actions) ELSE <<>>

\* A release step that runs the cleanup actions in the order of acquisition.
ReleaseInOrder(group) == IF group.exists /\ ~group.closed THEN group.actions ELSE <<>>

\* The release step of a group: its cleanup actions in reverse order of
\* acquisition, each at most once.
Release(group) == IF group.exists /\ ~group.closed THEN Reverse(group.actions) ELSE <<>>

Closed(group) == IF group.exists THEN [group EXCEPT !.closed = TRUE] ELSE group

\* A handler call that is never wrapped by the group.
ScopedCallNever(group) == FALSE

\* _get_response_data, line 173: the handler call is wrapped by the group.
ScopedCall(group) == group.exists

VARIABLES
    store,           \* response cache store: key -> entry
    live_sent,       \* per key: the messages sent live when the entry was written
    pc,              \* position of the request in flight
    log,             \* stages of the request in flight, in execution order
    exc,             \* exceptions propagating out of handle (empty: none)
    cache,           \* route_handler.cache of the request's handler
    cache_key,       \* cache key derived from the request
    cached_response_data,  \* what store.get returned for the key
    response_data,   \* _call_handler_function's response_data
    kwargs,          \* names present in kwargs of _get_response_data
    cleanup_group,   \* the DependencyCleanupGroup of the request
    released,        \* cleanup actions run so far, in execution order
    form,            \* scope["_form"]: the parsed form fields
    closes,          \* per upload file: how often it was closed
    response,        \* the ASGI app handle calls: [kind, messages, data]
    sent,            \* wire messages passed to send
    is_cached,       \* ScopeState.is_cached
    route_handlers,  \* HTTPRoute.__init__'s route_handlers: the methods each handler declares
    build_pc,        \* position of HTTPRoute.__init__
    build_i,         \* create_handler_map: index of the handler of the outer loop
    build_pending,   \* create_handler_map: methods of that handler still to register
    handler_map,     \* create_handler_map's local handler_map: method -> handler index
    route_handler_map,  \* HTTPRoute.route_handler_map, as installed
    allow_methods,   \* create_options_handler's allow_methods
    cors_config,     \* scope["app"].cors_config, shared by every request
    options_pc,      \* position of the OPTIONS request in flight
    options_request, \* headers of the OPTIONS request
    options_response \* the Response _options_handler returned

route_vars == <<route_handlers, build_pc, build_i, build_pending, handler_map, route_handler_map>>

options_vars == <<allow_methods, cors_config, options_pc, options_request, options_response>>

vars == <<store, live_sent, pc, log, exc, cache, cache_key, cached_response_data, response_data, kwargs,
          cleanup_group, released, form, closes, response, sent, is_cached, route_vars, options_vars>>

NoResponse == [kind |-> "none", messages |-> <<>>, data |-> None]

\* ---------------------------------------------------------------- helpers
\* A failure after which the request is looked up again.
RaiseThenRetry(e) == /\ exc' = {e}
                     /\ pc' = "get_response"

Raise(e) == /\ exc' = {e}
            /\ pc' = "failed"

FreshRequest ==
    /\ log = <<>>
    /\ exc = {}
    /\ cache = FALSE
    /\ cache_key = None
    /\ cached_response_data = NoEntry
    /\ response_data = None
    /\ kwargs = {}
    /\ cleanup_group = NoGroup
    /\ released = <<>>
    /\ form = <<>>
    /\ closes = <<>>
    /\ response = NoResponse
    /\ sent = <<>>
    /\ is_cached = FALSE

\* The per-request state of the next request.
ResetRequest ==
    /\ log' = <<>>
    /\ exc' = {}
    /\ cache' = FALSE
    /\ cache_key' = None
    /\ cached_response_data' = NoEntry
    /\ response_data' = None
    /\ kwargs' = {}
    /\ cleanup_group' = NoGroup
    /\ released' = <<>>
    /\ form' = <<>>
    /\ closes' = <<>>
    /\ response' = NoResponse
    /\ sent' = <<>>
    /\ is_cached' = FALSE

\* ------------------------------------------------ HTTPRoute.__init__ inputs
MaxHandlers == 2        \* route handlers of one route

HttpMethods == {"GET", "POST"}

\* The handler lists a route is built from: each handler declares a
\* non-empty set of HTTP methods.
RouteHandlerLists == UNION {[1..n -> (SUBSET HttpMethods) \ {{}}] : n \in 1..MaxHandlers}

\* create_handler_map, line 82: ``handler_map = {}``.
EmptyMap == [m \in {} |-> 0]

\* A check that finds no method registered.
IsRegisteredNever(map, http_method) == FALSE

\* create_handler_map, line 85: ``http_method in handler_map``.
IsRegistered(map, http_method) == http_method \in DOMAIN map

\* create_handler_map, line 88: ``handler_map[http_method] = route_handler``.
Registered(map, http_method, route_handler) ==
    [m \in DOMAIN map \cup {http_method} |-> IF m = http_method THEN route_handler ELSE map[m]]

\* A route of one GET handler, as __init__ leaves it.
RouteBuilt ==
    /\ route_handlers = <<{"GET"}>>
    /\ build_pc = "installed"
    /\ build_i = 1
    /\ build_pending = {}
    /\ handler_map = Registered(EmptyMap, "GET", 1)
    /\ route_handler_map = Registered(EmptyMap, "GET", 1)

\* ------------------------------------------------- _options_handler inputs
\* An application without a CORS configuration (cors_config is None).
NoPolicy == [configured |-> FALSE, is_allow_all_methods |-> FALSE, allow_methods |-> {},
             allow_origins |-> {}, is_allow_all_headers |-> FALSE, allow_headers |-> {},
             preflight_headers |-> EmptyMap]

NoRequest == [origin |-> None, method |-> None, headers |-> <<>>]

NoOptionsResponse == [status_code |-> 0, content |-> <<>>, headers |-> EmptyMap]

\* No OPTIONS request in flight, on an application without CORS.
OptionsIdle ==
    /\ allow_methods = <<"GET">>
    /\ cors_config = NoPolicy
    /\ options_pc = "idle"
    /\ options_request = NoRequest
    /\ options_response = NoOptionsResponse

\* No request in flight and an empty response cache.
PipelineIdle ==
    /\ store = [k \in Keys |-> NoEntry]
    /\ live_sent = [k \in Keys |-> <<>>]
    /\ pc = "idle"
    /\ FreshRequest

Init ==
    /\ PipelineIdle
    /\ RouteBuilt
    /\ OptionsIdle

\* -------------------------------------------------------------- HTTPRoute.handle
\* handle, lines 61-62: look the handler up and build the Request.
Handle ==
    /\ pc = "idle"
    /\ build_pc = "installed"
    /\ \E method \in DOMAIN route_handler_map : route_handler_map[method] \in DOMAIN route_handlers
    /\ pc' = "authorize"
    /\ UNCHANGED <<store, live_sent, log, exc, cache, cache_key, cached_response_data, response_data, kwargs,
                   cleanup_group, released, form, closes, response, sent, is_cached>>
    /\ UNCHANGED <<route_vars, options_vars>>

\* Guards whose denial is swallowed.
AfterGuardsIgnoringDenial(allowed) == "get_response"

\* handle, lines 64-65: the guards decide where the request goes next.
AfterGuards(allowed) == IF allowed THEN "get_response" ELSE "failed"

Authorize ==
    /\ pc = "authorize"
    /\ \E guards \in BOOLEAN :
         IF guards
         THEN /\ log' = Append(log, "authorize")
              /\ \E allowed \in BOOLEAN :
                   /\ pc' = AfterGuards(allowed)
                   /\ exc' = IF allowed THEN exc ELSE {"NotAuthorizedException"}
         ELSE /\ pc' = "get_response"
              /\ UNCHANGED <<log, exc>>
    /\ UNCHANGED <<store, live_sent, cache, cache_key, cached_response_data, response_data, kwargs, cleanup_group,
                   released, form, closes, response, sent, is_cached>>
    /\ UNCHANGED <<route_vars, options_vars>>

\* --------------------------------------------- _get_response_for_request
\* Lines 111-116 and _get_cached_response, lines 199-215: a cache-enabled
\* handler asks the store; a hit is decoded into the messages to replay.
GetCachedResponse ==
    /\ pc = "get_response"
    /\ \/ /\ cache' = FALSE
          /\ pc' = "before_request"
          /\ UNCHANGED <<log, exc, cache_key, cached_response_data, response>>
       \/ \E key \in Keys :
            /\ cache' = TRUE
            /\ cache_key' = key
            /\ log' = Append(log, "cache_lookup")
            /\ \/ /\ Raise("StoreError")
                  /\ UNCHANGED <<cached_response_data, response>>
               \/ \E entry \in StoreGet(store[key]) :
                    /\ cached_response_data' = entry
                    /\ IF ~IsCacheHit(entry)
                       THEN /\ pc' = "before_request"
                            /\ UNCHANGED <<exc, response>>
                       ELSE IF ~DecodeOk(entry.data)
                       THEN /\ Raise("DecodeError")
                            /\ UNCHANGED response
                       ELSE /\ response' = [kind |-> "cached",
                                            messages |-> _decode_msgpack_plain(entry.data),
                                            data |-> None]
                            /\ pc' = "send"
                            /\ UNCHANGED exc
    /\ UNCHANGED <<store, live_sent, response_data, kwargs, cleanup_group, released,
                   form, closes, sent, is_cached>>
    /\ UNCHANGED <<route_vars, options_vars>>

\* ------------------------------------------------- _call_handler_function
\* A check for None in place of the truthiness check.
SkipsHandlerUnlessNone(data) == data # None

\* Line 131: ``if not response_data`` decides whether the handler is called.
SkipsHandler(data) == Truthy(data)

\* Lines 125-131: the before-request hook, if declared.
BeforeRequest ==
    /\ pc = "before_request"
    /\ \/ /\ pc' = IF SkipsHandler(response_data) THEN "to_response" ELSE "kwargs"
          /\ UNCHANGED <<log, exc, response_data>>
       \/ /\ log' = Append(log, "before_request")
          /\ \/ \E result \in HookResults :
                  /\ response_data' = result
                  /\ pc' = IF SkipsHandler(result) THEN "to_response" ELSE "kwargs"
                  /\ UNCHANGED exc
             \/ /\ Raise("HookException")
                /\ UNCHANGED response_data
    /\ UNCHANGED <<store, live_sent, cache, cache_key, cached_response_data, kwargs, cleanup_group, released,
                   form, closes, response, sent, is_cached>>
    /\ UNCHANGED <<route_vars, options_vars>>

\* ----------------------------------------------------- _get_response_data
\* A serialization error that is let through as it is.
DataErrorRaw(e) == e

\* Lines 155-156: a SerializationException of ``data`` becomes a ClientException.
DataError(e) == IF e = "SerializationException" THEN "ClientException" ELSE e

\* Kwargs in which an empty ``data`` stays, as if passed as null.
KwargsKeepingData(names, is_empty) == names

\* Lines 158-161: ``data`` is deleted from the kwargs when the awaited value
\* is Empty, and replaced by the value otherwise.
KwargsAfterData(names, is_empty) == IF is_empty THEN names \ {"data"} ELSE names

\* What awaiting ``data`` or ``body`` can raise.
AwaitErrors == {"SerializationException", "ClientDisconnect"}

\* Lines 145-161: the kwargs of the handler, and ``data`` awaited.  Awaiting
\* ``data`` may parse a form, whose upload files are then held by the scope.
ResolveData ==
    /\ pc = "kwargs"
    /\ \/ /\ pc' = "invoke"
          /\ UNCHANGED <<log, exc, kwargs, form, closes>>
       \/ \E names \in SUBSET {"body"} :
            /\ kwargs' = names
            /\ pc' = "body"
            /\ UNCHANGED <<log, exc, form, closes>>
       \/ \E names \in SUBSET {"body"} :
            \/ \E e \in AwaitErrors :
                 /\ log' = log \o <<"data", e>>
                 /\ Raise(DataError(e))
                 /\ UNCHANGED <<kwargs, form, closes>>
            \/ /\ log' = log \o <<"data", "Empty">>
               /\ kwargs' = KwargsAfterData(names \cup {"data"}, TRUE)
               /\ pc' = "body"
               /\ UNCHANGED <<exc, form, closes>>
            \/ \E f \in Forms :
                 /\ log' = Append(log, "data")
                 /\ kwargs' = KwargsAfterData(names \cup {"data"}, FALSE)
                 /\ form' = f
                 /\ closes' = [p \in FilesOf(f) |-> 0]
                 /\ pc' = "body"
                 /\ UNCHANGED exc
    /\ UNCHANGED <<store, live_sent, cache, cache_key, cached_response_data, response_data, cleanup_group,
                   released, response, sent, is_cached>>
    /\ UNCHANGED <<route_vars, options_vars>>

\* Lines 163-164: ``body`` awaited.
ResolveBody ==
    /\ pc = "body"
    /\ IF "body" \in kwargs
       THEN \/ /\ log' = Append(log, "body")
               /\ pc' = "dependencies"
               /\ UNCHANGED exc
            \/ \E e \in AwaitErrors :
                 /\ log' = log \o <<"body", e>>
                 /\ Raise(e)
       ELSE /\ pc' = "dependencies"
            /\ UNCHANGED <<log, exc>>
    /\ UNCHANGED <<store, live_sent, cache, cache_key, cached_response_data, response_data, kwargs, cleanup_group,
                   released, form, closes, response, sent, is_cached>>
    /\ UNCHANGED <<route_vars, options_vars>>

\* resolve_dependencies: the group of the cleanup actions acquired, in order;
\* when a dependency fails, the ones acquired so far are released first.
NewGroup(n) == [exists |-> TRUE, actions |-> [i \in 1..n |-> i], closed |-> FALSE]

\* Lines 166-167: the dependency batches, if the handler has any.
ResolveDependencies ==
    /\ pc = "dependencies"
    /\ \/ /\ pc' = "validate"
          /\ UNCHANGED <<log, exc, cleanup_group, released>>
       \/ /\ log' = Append(log, "dependencies")
          /\ \E n \in 0..MaxCleanup :
               \/ /\ cleanup_group' = NewGroup(n)
                  /\ pc' = "validate"
                  /\ UNCHANGED <<exc, released>>
               \/ /\ released' = released \o Release(NewGroup(n))
                  /\ Raise("DependencyException")
                  /\ UNCHANGED cleanup_group
    /\ UNCHANGED <<store, live_sent, cache, cache_key, cached_response_data, response_data, kwargs,
                   form, closes, response, sent, is_cached>>
    /\ UNCHANGED <<route_vars, options_vars>>

\* Lines 169-171: the signature model validates the kwargs.
Validate ==
    /\ pc = "validate"
    /\ log' = Append(log, "validate")
    /\ \/ /\ pc' = "invoke"
          /\ UNCHANGED exc
       \/ Raise("ValidationException")
    /\ UNCHANGED <<store, live_sent, cache, cache_key, cached_response_data, response_data, kwargs, cleanup_group,
                   released, form, closes, response, sent, is_cached>>
    /\ UNCHANGED <<route_vars, options_vars>>

\* How the handler call can end: it returns, it raises, or (awaited only)
\* it is cancelled.
HandlerOutcomes(sync) ==
    {"return", "HandlerException"} \cup (IF sync THEN {} ELSE {"CancelledError"})

\* Lines 173-185: the handler is called, inside the cleanup group if there is
\* one; leaving the group runs its release step, whose own errors are
\* collected with the handler's.  The handler may close upload files itself.
Invoke ==
    /\ pc = "invoke"
    /\ \E sync \in BOOLEAN, by_handler \in SUBSET DOMAIN closes :
         /\ closes' = [p \in DOMAIN closes |->
                          IF p \in by_handler THEN closes[p] + 1 ELSE closes[p]]
         /\ \E outcome \in HandlerOutcomes(sync), result \in HandlerResults,
               cleanup_fails \in BOOLEAN :
              LET scoped == ScopedCall(cleanup_group)
                  run == IF scoped THEN Release(cleanup_group) ELSE <<>>
                  raised == (IF outcome = "return" THEN {} ELSE {outcome})
                            \cup (IF cleanup_fails THEN {"CleanupError"} ELSE {})
              IN /\ cleanup_fails => run # <<>>
                 /\ log' = IF outcome = "return" THEN Append(log, "handler")
                            ELSE log \o <<"handler", "handler_raised">>
                 /\ released' = released \o run
                 /\ cleanup_group' = IF scoped THEN Closed(cleanup_group) ELSE cleanup_group
                 /\ exc' = raised
                 /\ pc' = IF raised = {} THEN "to_response" ELSE "failed"
                 /\ response_data' = IF raised = {} THEN result ELSE response_data
    /\ UNCHANGED <<store, live_sent, cache, cache_key, cached_response_data, kwargs, form, response, sent,
                   is_cached>>
    /\ UNCHANGED <<route_vars, options_vars>>

\* Lines 134-139: the payload becomes a response; then the group is cleaned up.
ToResponse ==
    /\ pc = "to_response"
    /\ log' = Append(log, "to_response")
    /\ \/ /\ Raise("ResponseException")
          /\ UNCHANGED <<response, cleanup_group, released>>
       \/ \E msgs \in LiveResponses, cleanup_fails \in BOOLEAN :
            LET run == Release(cleanup_group)
            IN /\ cleanup_fails => run # <<>>
               /\ response' = [kind |-> "live", messages |-> msgs, data |-> response_data]
               /\ released' = released \o run
               /\ cleanup_group' = Closed(cleanup_group)
               /\ exc' = IF cleanup_fails THEN {"CleanupError"} ELSE exc
               /\ pc' = IF cleanup_fails THEN "failed" ELSE "send"
    /\ UNCHANGED <<store, live_sent, cache, cache_key, cached_response_data, response_data, kwargs,
                   form, closes, sent, is_cached>>
    /\ UNCHANGED <<route_vars, options_vars>>

\* ------------------------------------------------------ handle, lines 69-75
\* A replay that loses the start message.
ReplayWithoutStart(messages) == Tail(messages)

\* cached_response, lines 212-213: the messages are sent in stored order.
Replay(messages) == messages

\* Line 69: the response is called with send.  A cached response marks the
\* scope first; a send can fail after any number of messages.  A live
\* response of a cache-enabled handler is written through once it is sent.
SendResponse ==
    /\ pc = "send"
    /\ log' = Append(log, "send")
    /\ is_cached' = (response.kind = "cached")
    /\ LET out == IF response.kind = "cached" THEN Replay(response.messages)
                  ELSE response.messages
       IN \/ \E n \in 0..(Len(out) - 1) :
               /\ sent' = SubSeq(out, 1, n)
               /\ Raise("SendError")
               /\ UNCHANGED <<store, live_sent>>
          \/ /\ sent' = out
             /\ pc' = "after_response"
             /\ UNCHANGED exc
             /\ IF response.kind = "live" /\ cache
                THEN /\ store' = WriteCached(store, cache_key, cache, out)
                     /\ live_sent' = [live_sent EXCEPT ![cache_key] = out]
                ELSE UNCHANGED <<store, live_sent>>
    /\ UNCHANGED <<cache, cache_key, cached_response_data, response_data, kwargs, cleanup_group, released,
                   form, closes, response>>
    /\ UNCHANGED <<route_vars, options_vars>>

\* A hook that is handed the response.
AfterResponseArgumentResponse(request, sent_response) == sent_response

\* Line 72: ``after_response_handler(request)``.
AfterResponseArgument(request, sent_response) == request

\* Lines 71-72: the after-response hook, if declared.
AfterResponse ==
    /\ pc = "after_response"
    /\ \/ /\ pc' = "cleanup_files"
          /\ UNCHANGED <<log, exc>>
       \/ /\ log' = log \o <<"after_response", AfterResponseArgument("request", "response")>>
          /\ \/ /\ pc' = "cleanup_files"
                /\ UNCHANGED exc
             \/ Raise("HookException")
    /\ UNCHANGED <<store, live_sent, cache, cache_key, cached_response_data, response_data, kwargs, cleanup_group,
                   released, form, closes, response, sent, is_cached>>
    /\ UNCHANGED <<route_vars, options_vars>>

\* Line 74: ``if form_data := scope.get("_form", {})``.
HasFormData(f) == Len(f) > 0

\* Lines 74-75 and _cleanup_temporary_files, lines 217-221.
CleanupTemporaryFiles ==
    /\ pc = "cleanup_files"
    /\ IF HasFormData(form)
       THEN /\ closes' = [p \in DOMAIN closes |->
                             IF NeedsClose(form[p[1]], closes[p]) THEN closes[p] + 1
                             ELSE closes[p]]
            /\ log' = Append(log, "cleanup_files")
       ELSE UNCHANGED <<closes, log>>
    /\ pc' = "done"
    /\ UNCHANGED <<store, live_sent, exc, cache, cache_key, cached_response_data, response_data, kwargs,
                   cleanup_group, released, form, response, sent, is_cached>>
    /\ UNCHANGED <<route_vars, options_vars>>

\* The request is over (handle returned or raised); the next one may arrive.
Finish ==
    /\ pc \in {"done", "failed"}
    /\ pc' = "idle"
    /\ ResetRequest
    /\ UNCHANGED <<store, live_sent>>
    /\ UNCHANGED <<route_vars, options_vars>>

\* The store evicts an entry whose time-to-live has passed.
Expire ==
    /\ pc = "idle"
    /\ \E k \in Keys :
         /\ store[k].present
         /\ store' = [store EXCEPT ![k] = NoEntry]
         /\ live_sent' = [live_sent EXCEPT ![k] = <<>>]
    /\ UNCHANGED <<pc, log, exc, cache, cache_key, cached_response_data, response_data, kwargs, cleanup_group,
                   released, form, closes, response, sent, is_cached>>
    /\ UNCHANGED <<route_vars, options_vars>>

Next ==
    \/ Handle
    \/ Authorize
    \/ GetCachedResponse
    \/ BeforeRequest
    \/ ResolveData
    \/ ResolveBody
    \/ ResolveDependencies
    \/ Validate
    \/ Invoke
    \/ ToResponse
    \/ SendResponse
    \/ AfterResponse
    \/ CleanupTemporaryFiles
    \/ Finish
    \/ Expire

Spec == Init /\ [][Next]_vars

\* ---------------------------------------------------- HTTPRoute.__init__
\* The route before __init__ has run, for any list of handlers.
InitRoute ==
    /\ PipelineIdle
    /\ OptionsIdle
    /\ route_handlers \in RouteHandlerLists
    /\ build_pc = "create_handler_map"
    /\ build_i = 0
    /\ build_pending = {}
    /\ handler_map = EmptyMap
    /\ route_handler_map = EmptyMap

\* create_handler_map, line 83: the outer loop takes the next handler.
NextRouteHandler ==
    /\ build_pc = "create_handler_map"
    /\ build_pending = {}
    /\ build_i < Len(route_handlers)
    /\ build_i' = build_i + 1
    /\ build_pending' = route_handlers[build_i + 1]
    /\ UNCHANGED <<route_handlers, build_pc, handler_map, route_handler_map>>
    /\ UNCHANGED <<store, live_sent, pc, log, exc, cache, cache_key, cached_response_data, response_data,
                   kwargs, cleanup_group, released, form, closes, response, sent, is_cached, options_vars>>

\* create_handler_map, lines 84-88: one method of the handler is registered,
\* or found registered already, which raises ImproperlyConfiguredException
\* out of __init__.
CreateHandlerMap ==
    /\ build_pc = "create_handler_map"
    /\ \E http_method \in build_pending :
         IF IsRegistered(handler_map, http_method)
         THEN /\ build_pc' = "failed"
              /\ exc' = {"ImproperlyConfiguredException"}
              /\ UNCHANGED <<build_pending, handler_map>>
         ELSE /\ handler_map' = Registered(handler_map, http_method, build_i)
              /\ build_pending' = build_pending \ {http_method}
              /\ UNCHANGED <<build_pc, exc>>
    /\ UNCHANGED <<route_handlers, build_i, route_handler_map>>
    /\ UNCHANGED <<store, live_sent, pc, log, cache, cache_key, cached_response_data, response_data,
                   kwargs, cleanup_group, released, form, closes, response, sent, is_cached, options_vars>>

\* create_handler_map, line 89, and __init__, line 45: the finished map is
\* returned and becomes the route's route_handler_map.
InstallHandlerMap ==
    /\ build_pc = "create_handler_map"
    /\ build_pending = {}
    /\ build_i = Len(route_handlers)
    /\ route_handler_map' = handler_map
    /\ build_pc' = "installed"
    /\ UNCHANGED <<route_handlers, build_i, build_pending, handler_map>>
    /\ UNCHANGED <<store, live_sent, pc, log, exc, cache, cache_key, cached_response_data, response_data,
                   kwargs, cleanup_group, released, form, closes, response, sent, is_cached, options_vars>>

NextRoute ==
    \/ NextRouteHandler
    \/ CreateHandlerMap
    \/ InstallHandlerMap
    \/ Next

SpecRoute == InitRoute /\ [][NextRoute]_vars

\* ------------------------------------------------------- _options_handler
MaxRequestedHeaders == 2    \* comma-separated pieces of Access-Control-Request-Headers

Origins == {"https://a.example", "https://evil.example"}

\* What Headers.get returns for Origin: None when absent, else the value,
\* which may be empty.
OriginValues == {None, ""} \cup Origins

\* What Headers.get returns for Access-Control-Request-Method.
MethodValues == {None, "", "GET", "DELETE"}

\* The pieces between the commas of Access-Control-Request-Headers.
Pieces == {"", "X-A", " x-b "}

\* Access-Control-Request-Headers as split(",") leaves it; an absent header
\* reads as "" (line 56), whose split is the one empty piece.
RequestedHeaderValues == UNION {[1..n -> Pieces] : n \in 1..MaxRequestedHeaders}

OptionsRequests == [origin : OriginValues, method : MethodValues, headers : RequestedHeaderValues]

\* The allow_methods create_options_handler is given.
AllowMethodLists == {<<"GET">>, <<"POST", "GET">>, <<"POST", "DELETE", "OPTIONS", "POST">>}

\* The preflight headers a CORS configuration has precomputed.
PreflightDefaults ==
    {[h \in {"Access-Control-Max-Age"} |-> <<"600">>],
     [h \in {"Access-Control-Max-Age", "Access-Control-Allow-Origin"} |->
        IF h = "Access-Control-Allow-Origin" THEN <<"*">> ELSE <<"600">>]}

\* The CORS configurations of the application; allow_headers are held in
\* lower case.
Policies ==
    {[configured |-> TRUE,
      is_allow_all_methods |-> am,
      allow_methods |-> IF am THEN {"*"} ELSE {"GET", "POST"},
      allow_origins |-> ao,
      is_allow_all_headers |-> ah,
      allow_headers |-> IF ah THEN {"*"} ELSE {"x-a"},
      preflight_headers |-> ph] :
        am \in BOOLEAN, ao \in {{"*"}, {"https://a.example"}}, ah \in BOOLEAN, ph \in PreflightDefaults}

DEFAULT_ALLOWED_CORS_HEADERS == {"Accept", "Accept-Language", "Content-Language", "Content-Type"}

Range(s) == {s[i] : i \in DOMAIN s}

\* The order of str comparison on the method tokens and on the header names.
MethodOrder == <<"DELETE", "GET", "OPTIONS", "POST">>

HeaderOrder == <<"Accept", "Accept-Language", "Content-Language", "Content-Type", "X-A", "x-a", "x-b">>

\* ", ".join(sorted(S)): the elements of S in ascending order.
Sorted(order, S) == SelectSeq(order, LAMBDA x : x \in S)

\* ``d[k] = v`` on a dict.
Put(d, k, v) == [x \in DOMAIN d \cup {k} |-> IF x = k THEN v ELSE d[x]]

\* Lines 38 and 43: a header value is tested for truth, which None and the
\* empty string fail.
NonEmpty(v) == v # None /\ v # ""

\* str.strip and str.lower on the pieces.
Strip(piece) == IF piece = " x-b " THEN "x-b" ELSE piece

\* A comparison that keeps the case of the requested header.
LowerKeepsCase(header) == header

\* Line 64: header.lower().
Lower(header) == IF header = "X-A" THEN "x-a" ELSE header

\* Lines 54-58: the requested headers, stripped, the empty ones dropped.
pre_flight_requested_headers(value) ==
    SelectSeq([i \in DOMAIN value |-> Strip(value[i])], LAMBDA header : header # "")

\* CORSConfig.is_origin_allowed.
is_origin_allowed(config, origin) == "*" \in config.allow_origins \/ origin \in config.allow_origins

\* An Allow header in the order the methods were given.
AllowAsGiven(methods) == <<"OPTIONS">> \o methods

\* Line 86: ", ".join(sorted({HttpMethod.OPTIONS, *allow_methods})).
Allow(methods) == Sorted(MethodOrder, {"OPTIONS"} \cup Range(methods))

\* An origin that is echoed whatever the headers grant.
EchoesOriginAlways(response_headers) == TRUE

\* Line 51: the origin is echoed unless the headers grant every origin.
EchoesOrigin(response_headers) ==
    ~("Access-Control-Allow-Origin" \in DOMAIN response_headers
        /\ response_headers["Access-Control-Allow-Origin"] = <<"*">>)

\* Response headers that are the configuration's own dict.
DictCopyAlias(ref) == ref

\* Line 47: preflight_headers.copy() is a dict of its own.
DictCopy(ref) == "copy"

\* No OPTIONS request yet, for any route and any CORS configuration or none.
InitOptions ==
    /\ PipelineIdle
    /\ RouteBuilt
    /\ allow_methods \in AllowMethodLists
    /\ cors_config \in Policies \cup {NoPolicy}
    /\ options_pc = "idle"
    /\ options_request = NoRequest
    /\ options_response = NoOptionsResponse

\* Lines 34-88: the handler answers one OPTIONS request.
_options_handler ==
    /\ options_pc = "idle"
    /\ \E request \in OptionsRequests :
         LET origin == request.origin
         IN /\ options_request' = request
            /\ IF cors_config.configured /\ NonEmpty(origin)
               THEN LET pre_flight_method == request.method
                        method_fails ==
                            /\ ~cors_config.is_allow_all_methods
                            /\ NonEmpty(pre_flight_method)
                            /\ pre_flight_method \notin cors_config.allow_methods
                        failures_1 == IF method_fails THEN <<"method">> ELSE <<>>
                        response_headers == DictCopy("policy")
                        heap_0 == [policy |-> cors_config.preflight_headers,
                                   copy |-> cors_config.preflight_headers]
                        origin_allowed == is_origin_allowed(cors_config, origin)
                        failures_2 == IF origin_allowed THEN failures_1 ELSE Append(failures_1, "Origin")
                        heap_1 == IF origin_allowed /\ EchoesOrigin(heap_0[response_headers])
                                  THEN [heap_0 EXCEPT ![response_headers] =
                                            Put(@, "Access-Control-Allow-Origin", <<origin>>)]
                                  ELSE heap_0
                        requested == pre_flight_requested_headers(request.headers)
                        heap_2 == IF requested # <<>> /\ cors_config.is_allow_all_headers
                                  THEN [heap_1 EXCEPT ![response_headers] =
                                            Put(@, "Access-Control-Allow-Headers",
                                                Sorted(HeaderOrder,
                                                       Range(requested) \cup DEFAULT_ALLOWED_CORS_HEADERS))]
                                  ELSE heap_1
                        headers_fail ==
                            /\ requested # <<>>
                            /\ ~cors_config.is_allow_all_headers
                            /\ \E i \in DOMAIN requested : Lower(requested[i]) \notin cors_config.allow_headers
                        failures == IF headers_fail THEN Append(failures_2, "headers") ELSE failures_2
                    IN /\ options_response' =
                            IF failures # <<>>
                            THEN [status_code |-> 400, content |-> <<"Disallowed CORS ">> \o failures,
                                  headers |-> EmptyMap]
                            ELSE [status_code |-> 204, content |-> <<>>,
                                  headers |-> heap_2[response_headers]]
                       /\ cors_config' = [cors_config EXCEPT !.preflight_headers = heap_2.policy]
               ELSE /\ options_response' =
                         [status_code |-> 204, content |-> <<>>,
                          headers |-> Put(EmptyMap, "Allow", Allow(allow_methods))]
                    /\ UNCHANGED cors_config
    /\ options_pc' = "responded"
    /\ UNCHANGED allow_methods
    /\ UNCHANGED <<store, live_sent, pc, log, exc, cache, cache_key, cached_response_data, response_data,
                   kwargs, cleanup_group, released, form, closes, response, sent, is_cached, route_vars>>

\* The response has left the handler; the next call starts from a new scope.
OptionsReturn ==
    /\ options_pc = "responded"
    /\ options_pc' = "idle"
    /\ options_request' = NoRequest
    /\ options_response' = NoOptionsResponse
    /\ UNCHANGED <<allow_methods, cors_config>>
    /\ UNCHANGED <<store, live_sent, pc, log, exc, cache, cache_key, cached_response_data, response_data,
                   kwargs, cleanup_group, released, form, closes, response, sent, is_cached, route_vars>>

NextOptions ==
    \/ _options_handler
    \/ OptionsReturn

SpecOptions == InitOptions /\ [][NextOptions]_vars
\* ================================================================= claims
InLog(e) == \E i \in DOMAIN log : log[i] = e

Finished == pc \in {"done", "failed"}

\* The response was sent completely.
ResponseSent == pc \in {"after_response", "cleanup_files", "done"} \/ InLog("after_response")

\* The stages of parameter resolution and the handler call.
HandlerStages == {"data", "body", "dependencies", "validate", "handler"}

\* How often cleanup action a ran.
TimesReleased(a) == Cardinality({i \in DOMAIN released : released[i] = a})

\* C1: whenever handle has completed or raised, every upload file of the
\* request's form data has been closed.
C1_FilesClosedOnEveryExit ==
    Finished => \A p \in DOMAIN closes : closes[p] >= 1

\* C2: when a request completes normally, every upload file of its form data,
\* the single value of a field or one of several under a field, has been
\* closed exactly once.
C2_FilesClosedExactlyOnce ==
    pc = "done" => \A p \in DOMAIN closes : closes[p] = 1

\* C3: when a cleanup group was produced and the handler call raised or was
\* cancelled, then by the time the failure has left _get_response_data the
\* group's release step has run, and the failure is among the exceptions
\* that propagate.
C3_ReleaseBeforeHandlerFailurePropagates ==
    (cleanup_group.exists /\ InLog("handler_raised"))
        => /\ pc = "failed"
           /\ released = Reverse(cleanup_group.actions)
           /\ exc \cap {"HandlerException", "CancelledError"} # {}

C3_Witness ==
    /\ pc = "failed"
    /\ InLog("handler_raised")
    /\ Len(cleanup_group.actions) = 2
    /\ released = <<2, 1>>
    /\ "CancelledError" \in exc

\* C4: within one request no cleanup action of the group runs more than once,
\* whether the request succeeds or fails.
C4_CleanupAtMostOnce ==
    \A a \in 1..MaxCleanup : TimesReleased(a) <= 1

C4_Witness ==
    /\ pc = "send"
    /\ cleanup_group.closed
    /\ Len(cleanup_group.actions) = 2
    /\ released = <<2, 1>>

\* C5: once dependency resolution has produced a cleanup group, the group's
\* release has run by the time the request is over, whatever failed.
C5_ReleaseReachedOnceResolved ==
    (Finished /\ cleanup_group.exists) => released = Reverse(cleanup_group.actions)

\* C6: when the guards reject the connection, the request fails at once and
\* nothing but the guard check has happened for it: no cache lookup, hook,
\* resolution, handler call, response or send.
C6_GuardDenialShortCircuits ==
    "NotAuthorizedException" \in exc
        => /\ pc = "failed"
           /\ log = <<"authorize">>
           /\ response = NoResponse
           /\ sent = <<>>
           /\ ~is_cached
           /\ released = <<>>

C6_Witness ==
    /\ pc = "failed"
    /\ exc = {"NotAuthorizedException"}
    /\ log = <<"authorize">>

\* C7: when a cache-enabled handler's lookup returns a decodable entry, the
\* cached response is used: neither the before-request hook, resolution nor
\* the handler run, and once the response is sent the messages sent are
\* exactly the stored ones, in stored order, and the scope is marked cached.
C7_CacheHitReplaysStoredMessages ==
    (cache /\ cached_response_data.present /\ DecodeOk(cached_response_data.data))
        => /\ response.kind = "cached"
           /\ \A e \in HandlerStages \cup {"before_request", "to_response"} : ~InLog(e)
           /\ ResponseSent
                => /\ sent = _decode_msgpack_plain(store[cache_key].data)
                   /\ is_cached

C7_Witness ==
    /\ pc = "done"
    /\ response.kind = "cached"
    /\ sent = <<1, 2>>
    /\ is_cached

C9_CorruptEntryIsHardFailure ==
    (cache /\ cached_response_data.present /\ ~DecodeOk(cached_response_data.data))
        => /\ pc = "failed"
           /\ exc # {}
           /\ ~InLog("handler")
           /\ sent = <<>>

\* C10: a declared before-request hook runs before any parameter resolution;
\* a non-empty (truthy) result becomes the payload of response conversion,
\* with resolution and the handler call skipped and no cleanup group made;
\* the handler is resolved and called only after an empty (falsy) result.
C10_BeforeRequestShortCircuit ==
    /\ \A j \in DOMAIN log :
         log[j] \in HandlerStages => \A i \in j..Len(log) : log[i] # "before_request"
    /\ (pc \in {"kwargs", "body", "dependencies", "validate", "invoke"})
         => ~Truthy(response_data)
    /\ (InLog("to_response") /\ ~InLog("handler"))
         => /\ InLog("before_request")
            /\ Truthy(response_data)
            /\ \A e \in HandlerStages : ~InLog(e)
            /\ cleanup_group = NoGroup
            /\ response.kind = "live" => response.data = response_data

C10_Witness ==
    /\ pc = "done"
    /\ log = <<"before_request", "to_response", "send">>
    /\ response.data = "Payload"

\* Where event e stands in the log, 0 when it is not there.
At(e) == IF InLog(e) THEN CHOOSE i \in DOMAIN log : log[i] = e ELSE 0

\* C11: a declared after-response hook starts only after the response was
\* sent in full and is handed the request; closing the temporary files starts
\* only after the hook has finished; for live and for cache-served responses.
C11_HookAfterSendCleanupAfterHook ==
    /\ InLog("after_response")
         => /\ 0 < At("send") /\ At("send") < At("after_response")
            /\ sent = response.messages
            /\ log[At("after_response") + 1] = "request"
    /\ (pc = "cleanup_files" \/ InLog("cleanup_files"))
         => /\ InLog("send")
            /\ sent = response.messages
            /\ exc = {}
            /\ InLog("after_response") => At("after_response") < Len(log)
    /\ InLog("cleanup_files")
         => /\ log[Len(log)] = "cleanup_files"
            /\ InLog("after_response") => At("after_response") + 1 < At("cleanup_files")

C11_Witness ==
    /\ pc = "done"
    /\ response.kind = "live"
    /\ InLog("after_response")
    /\ InLog("cleanup_files")

\* The position of a stage of handle in its straight-line code.
StageRank ==
    [s \in {"idle", "authorize", "get_response", "before_request", "kwargs", "body", "dependencies",
            "validate", "invoke", "to_response", "send", "after_response", "cleanup_files", "done", "failed"}
       |-> CASE s = "idle" -> 0
             [] s = "authorize" -> 1
             [] s = "get_response" -> 2
             [] s = "before_request" -> 3
             [] s = "kwargs" -> 4
             [] s = "body" -> 5
             [] s = "dependencies" -> 6
             [] s = "validate" -> 7
             [] s = "invoke" -> 8
             [] s = "to_response" -> 9
             [] s = "send" -> 10
             [] s = "after_response" -> 11
             [] s = "cleanup_files" -> 12
             [] OTHER -> 13]

\* The stages a request goes through, as logged.
Stages == {"authorize", "cache_lookup", "before_request", "data", "body", "dependencies", "validate",
           "handler", "handler_raised", "to_response", "send", "after_response", "cleanup_files"}

\* C12: every request ends exactly once, by success or by raising a single
\* failure; no failure is retried and no stage runs more than once for a
\* request.
C12_EachStageOnceThenDone ==
    [][/\ pc \notin {"idle", "done", "failed"} => StageRank[pc'] > StageRank[pc]
       /\ pc \in {"done", "failed"} => (pc' = "idle" /\ log' = <<>>)
       /\ pc' = "failed" <=> exc' # {}
       /\ exc # {} => pc' = "idle"
       /\ \/ log' = <<>>
          \/ /\ SubSeq(log', 1, Len(log)) = log
             /\ \A k \in (Len(log) + 1)..Len(log') :
                  log'[k] \in Stages => \A i \in 1..(k - 1) : log'[i] # log'[k]
       /\ ENABLED Next]_vars

C12_Witness ==
    /\ pc = "failed"
    /\ InLog("cache_lookup")
    /\ InLog("handler_raised")
    /\ exc # {}

\* Event e is in the log and is followed there by x.
Followed(e, x) == \E i \in 1..(Len(log) - 1) : log[i] = e /\ log[i + 1] = x

\* C13: a serialization error of ``data`` reaches the caller as a
\* ClientException and never as the raw error, with neither dependency
\* resolution nor validation nor the handler run; an error of awaiting
\* ``body`` propagates as it is.
C13_DataErrorIsClientException ==
    /\ Followed("data", "SerializationException")
         => /\ pc = "failed"
            /\ exc = {"ClientException"}
            /\ \A e \in {"dependencies", "validate", "handler"} : ~InLog(e)
            /\ sent = <<>>
    /\ \A e \in AwaitErrors :
         Followed("body", e) => (pc = "failed" /\ exc = {e})

C13_Witness ==
    /\ pc = "failed"
    /\ log[Len(log)] = "SerializationException"
    /\ log[Len(log) - 1] = "data"
    /\ exc = {"ClientException"}

\* The order the claim gives the stages of resolution and the handler call.
ResolutionOrder == [data |-> 1, body |-> 2, dependencies |-> 3, validate |-> 4, handler |-> 5]

\* C19: ``data`` is awaited first, then ``body``, then the dependency
\* batches; validation runs after all of them and before the handler; when
\* the awaited ``data`` is Empty, ``data`` is absent from the kwargs that
\* validation and the handler get.
C19_ResolutionOrder ==
    /\ LET ran == SelectSeq(log, LAMBDA e : e \in HandlerStages)
       IN \A k \in 1..(Len(ran) - 1) : ResolutionOrder[ran[k]] < ResolutionOrder[ran[k + 1]]
    /\ (InLog("handler") /\ (InLog("data") \/ InLog("body") \/ InLog("dependencies")))
         => InLog("validate")
    /\ InLog("validate") => pc \notin {"kwargs", "body", "dependencies", "validate"}
    /\ Followed("data", "Empty") => "data" \notin kwargs
    /\ (InLog("data") /\ pc \in {"body", "dependencies", "validate", "invoke"}
          /\ ~Followed("data", "Empty")) => "data" \in kwargs

C19_Witness ==
    /\ pc = "to_response"
    /\ log = <<"data", "Empty", "body", "dependencies", "validate", "handler">>
    /\ kwargs = {"body"}

\* C20: the cleanup actions of a group run in the reverse of the order they
\* were acquired in (a, b, c acquired: c, b, a run), when the handler returns
\* and when it raises.
C20_ReleaseInReverseOrder ==
    /\ \A i, j \in DOMAIN released : i < j => released[i] > released[j]
    /\ cleanup_group.closed => Len(released) = Len(cleanup_group.actions)

C20_Witness ==
    /\ InLog("handler_raised")
    /\ Len(cleanup_group.actions) = 3
    /\ released = <<3, 2, 1>>

\* The handlers of the route that declare method m.
Declaring(m) == {i \in DOMAIN route_handlers : m \in route_handlers[i]}

\* C14: a built route has exactly one table entry per declared method, each
\* mapped to the handler that declared it; when a method is declared twice
\* construction fails with ImproperlyConfiguredException and no table is
\* installed; once installed the table is never changed by handle.
C14_OneEntryPerMethod ==
    [][/\ build_pc' = "installed"
            => /\ \A m \in HttpMethods : Cardinality(Declaring(m)) <= 1
               /\ DOMAIN route_handler_map' = {m \in HttpMethods : Declaring(m) # {}}
               /\ \A m \in DOMAIN route_handler_map' : Declaring(m) = {route_handler_map'[m]}
       /\ (\E m \in HttpMethods : Cardinality(Declaring(m)) > 1) => build_pc' # "installed"
       /\ build_pc' = "failed"
            => /\ route_handler_map' = EmptyMap
               /\ exc' = {"ImproperlyConfiguredException"}
               /\ pc' = "idle"
       /\ build_pc = "installed" => (build_pc' = "installed" /\ route_handler_map' = route_handler_map)
       /\ route_handlers' = route_handlers]_vars

C14_Witness ==
    /\ build_pc = "installed"
    /\ Len(route_handlers) = 2
    /\ DOMAIN route_handler_map = {"GET", "POST"}
    /\ pc = "done"
    /\ sent # <<>>

Responded == options_pc = "responded"

\* Where token x stands in the order of str comparison.
Rank(order, x) == CHOOSE i \in DOMAIN order : order[i] = x

CorsHeaders == {"Access-Control-Allow-Origin", "Access-Control-Allow-Headers", "Access-Control-Max-Age"}

\* C15: an OPTIONS request without an Origin header, and any OPTIONS request
\* when no CORS policy is configured, is answered 204 with an empty body, an
\* Allow header of OPTIONS and the route's methods, sorted and without
\* duplicates, and no CORS header.
C15_AllowWithoutCors ==
    (Responded /\ (options_request.origin = None \/ ~cors_config.configured))
        => /\ options_response.status_code = 204
           /\ options_response.content = <<>>
           /\ DOMAIN options_response.headers = {"Allow"}
           /\ LET allow == options_response.headers["Allow"]
              IN /\ Range(allow) = {"OPTIONS"} \cup Range(allow_methods)
                 /\ \A i, j \in DOMAIN allow :
                      i < j => Rank(MethodOrder, allow[i]) < Rank(MethodOrder, allow[j])

C15_Witness ==
    /\ Responded
    /\ cors_config.configured
    /\ options_request.origin = None
    /\ allow_methods = <<"POST", "DELETE", "OPTIONS", "POST">>
    /\ options_response.headers["Allow"] = <<"DELETE", "OPTIONS", "POST">>

\* Header names that differ in case only are one header.
Folded(header) == IF header = "X-A" THEN "x-a" ELSE header

\* The checks that fail for the request, in the order method, Origin,
\* headers, when has_method tells whether the request names a method.
FailedChecks(has_method) ==
    LET requested == pre_flight_requested_headers(options_request.headers)
        method == /\ ~cors_config.is_allow_all_methods
                  /\ has_method
                  /\ options_request.method \notin cors_config.allow_methods
        origin == ~is_origin_allowed(cors_config, options_request.origin)
        headers == /\ ~cors_config.is_allow_all_headers
                   /\ \E i \in DOMAIN requested : Folded(requested[i]) \notin cors_config.allow_headers
    IN (IF method THEN <<"method">> ELSE <<>>)
         \o (IF origin THEN <<"Origin">> ELSE <<>>)
         \o (IF headers THEN <<"headers">> ELSE <<>>)

\* The response is the outcome of a preflight with these failed checks.
OutcomeOf(failed) ==
    IF failed # <<>>
    THEN /\ options_response.status_code = 400
         /\ options_response.content = <<"Disallowed CORS ">> \o failed
    ELSE /\ options_response.status_code = 204
         /\ options_response.content = <<>>

\* C16, as stated: with a policy configured and an Origin header present,
\* all three checks are evaluated and the response is 400 naming the failed
\* ones in the order method, Origin, headers, or 204 when none failed; the
\* method check fails iff the policy is not allow-all-methods and
\* Access-Control-Request-Method is present and not allowed.
C16_PreflightOutcome ==
    (Responded /\ cors_config.configured /\ options_request.origin # None)
        => OutcomeOf(FailedChecks(options_request.method # None))

\* C16, amended: the same for an Origin header with a non-empty value, the
\* method check failing only for a non-empty Access-Control-Request-Method;
\* an empty value counts as an absent header.
C16_PreflightOutcomeNonEmpty ==
    (Responded /\ cors_config.configured /\ options_request.origin \notin {None, ""})
        => OutcomeOf(FailedChecks(options_request.method \notin {None, ""}))

C16_Witness ==
    /\ Responded
    /\ options_request.method = "DELETE"
    /\ options_request.headers = <<"X-A", " x-b ">>
    /\ options_response.status_code = 400
    /\ options_response.content = <<"Disallowed CORS ", "method", "Origin", "headers">>

\* C17: an allowed preflight keeps Access-Control-Allow-Origin: * when the
\* policy's preflight headers carry it, and otherwise answers with the
\* request's Origin as it was sent.
C17_WildcardKeptElseOriginEchoed ==
    (Responded /\ cors_config.configured /\ options_request.origin \notin {None, ""}
       /\ options_response.status_code = 204)
        => /\ is_origin_allowed(cors_config, options_request.origin)
           /\ "Access-Control-Allow-Origin" \in DOMAIN options_response.headers
           /\ options_response.headers["Access-Control-Allow-Origin"] =
                IF /\ "Access-Control-Allow-Origin" \in DOMAIN cors_config.preflight_headers
                   /\ cors_config.preflight_headers["Access-Control-Allow-Origin"] = <<"*">>
                THEN <<"*">>
                ELSE <<options_request.origin>>

C17_Witness ==
    /\ Responded
    /\ options_response.status_code = 204
    /\ options_request.origin = "https://evil.example"
    /\ cors_config.preflight_headers \in PreflightDefaults
    /\ "Access-Control-Allow-Origin" \in DOMAIN cors_config.preflight_headers
    /\ "Access-Control-Allow-Origin" \in DOMAIN options_response.headers
    /\ options_response.headers["Access-Control-Allow-Origin"] = <<"*">>

\* The CORS headers of the response hold nothing but the policy's defaults
\* and values of the request answered.
OwnValuesOnly ==
    LET headers == options_response.headers
    IN /\ "Access-Control-Allow-Origin" \in DOMAIN headers
            => headers["Access-Control-Allow-Origin"] \in {<<"*">>, <<options_request.origin>>}
       /\ "Access-Control-Allow-Headers" \in DOMAIN headers
            => Range(headers["Access-Control-Allow-Headers"])
                 = Range(pre_flight_requested_headers(options_request.headers))
                     \cup DEFAULT_ALLOWED_CORS_HEADERS

\* C18: no preflight request, allowed or denied, changes the CORS policy or
\* its precomputed preflight headers, and the Access-Control-Allow-Origin and
\* Access-Control-Allow-Headers of a response hold no value of another
\* request.
C18_PolicyNeverMutated ==
    [][/\ cors_config' = cors_config
       /\ cors_config.configured => cors_config'.preflight_headers \in PreflightDefaults
       /\ OwnValuesOnly']_vars

C18_Witness ==
    /\ Responded
    /\ options_response.status_code = 204
    /\ options_request.origin = "https://a.example"
    /\ "Access-Control-Allow-Origin" \in DOMAIN options_response.headers
    /\ options_response.headers["Access-Control-Allow-Origin"] = <<"https://a.example">>
    /\ "Access-Control-Allow-Headers" \in DOMAIN options_response.headers
    /\ cors_config.preflight_headers \in PreflightDefaults
====
